---- MODULE Spec2Model ----
(***************************************************************************)
(* Hyperband outer loop and successive halving of                          *)
(* src/neural/handwriting/hyperband/hyperband.py (the __main__ block,      *)
(* iscenario == 5, lines 347-401).                                         *)
(*                                                                         *)
(* The file is Python 2 (open(name, 'w+', 0) at lines 221, 345 and 395 is  *)
(* rejected by Python 3), so "/" on two ints is floor division and a list  *)
(* comprehension leaks its loop variable.  int ** negative int is a float. *)
(* Floats are IEEE-754 doubles: 53-bit significand, round to nearest even. *)
(***************************************************************************)
EXTENDS Integers, Sequences, FiniteSets, TLC

(***************************************************************************)
(* Exact binary arithmetic.  A natural number is its sequence of bits,     *)
(* most significant first, without leading zeros (zero is << >>): TLC's    *)
(* integers are 32 bits wide, a double's significand is 53.  Carries run   *)
(* over limbs of LimbBits bits, which keeps every recursion a few levels   *)
(* deep.                                                                   *)
(***************************************************************************)
LimbBits == 13

RECURSIVE Pow2(_)
Pow2(k) ==
    IF k = 0 THEN 1
    ELSE LET h == Pow2(k \div 2) IN IF k % 2 = 1 THEN 2 * h * h ELSE h * h

LimbBase ==
    Pow2(LimbBits)

Zeros(k) ==
    [j \in 1..k |-> 0]

Strip(b) ==
    LET ones == {j \in 1..Len(b) : b[j] = 1}
    IN  IF ones = {} THEN << >>
        ELSE SubSeq(b, CHOOSE j \in ones : \A k \in ones : j <= k, Len(b))

\* the value of at most LimbBits bits
RECURSIVE ChunkNat(_)
ChunkNat(b) ==
    IF b = << >> THEN 0 ELSE 2 * ChunkNat(SubSeq(b, 1, Len(b) - 1)) + b[Len(b)]

\* the limbs of b, most significant first
ToLimbs(b) ==
    LET nl == (Len(b) + LimbBits - 1) \div LimbBits
        padded == Zeros(nl * LimbBits - Len(b)) \o b
    IN  [j \in 1..nl |-> ChunkNat(SubSeq(padded, LimbBits * (j - 1) + 1, LimbBits * j))]

FromLimbs(l) ==
    Strip([p \in 1..(LimbBits * Len(l)) |->
              (l[(p - 1) \div LimbBits + 1]
                   \div Pow2(LimbBits - 1 - ((p - 1) % LimbBits))) % 2])

\* the bits of a natural number below 2^31
NatBits(k) ==
    Strip([p \in 1..31 |-> (k \div Pow2(31 - p)) % 2])

RECURSIVE LimbsNat(_)
LimbsNat(l) ==
    IF l = << >> THEN 0
    ELSE LimbBase * LimbsNat(SubSeq(l, 1, Len(l) - 1)) + l[Len(l)]

\* the value of b, which is below 2^31
BitsNat(b) ==
    LimbsNat(ToLimbs(b))

\* limbs of l * k (without the carry out of them) and that carry; k < 2^17
RECURSIVE MulLow(_, _)
MulLow(l, k) ==
    IF l = << >> THEN [s |-> << >>, c |-> 0]
    ELSE LET p == MulLow(Tail(l), k)
             t == l[1] * k + p.c
         IN  [s |-> <<t % LimbBase>> \o p.s, c |-> t \div LimbBase]

\* bits of (b * k), k a natural below 2^17
BitsMulSmall(b, k) ==
    LET p == MulLow(ToLimbs(b), k) IN FromLimbs(<<p.c \div LimbBase, p.c % LimbBase>> \o p.s)

\* quotient limbs and remainder of l by k; k < 2^17
RECURSIVE DivStep(_, _)
DivStep(l, k) ==
    IF l = << >> THEN [q |-> << >>, r |-> 0]
    ELSE LET p == DivStep(SubSeq(l, 1, Len(l) - 1), k)
             t == LimbBase * p.r + l[Len(l)]
         IN  [q |-> Append(p.q, t \div k), r |-> t % k]

\* quotient bits and remainder of b by k, k a natural in 1..2^17-1
BitsDivSmall(b, k) ==
    LET d == DivStep(ToLimbs(b), k) IN [q |-> FromLimbs(d.q), r |-> d.r]

\* limbs of a + b (two limb sequences of one length) and the carry out
RECURSIVE AddLow(_, _)
AddLow(a, b) ==
    IF a = << >> THEN [s |-> << >>, c |-> 0]
    ELSE LET p == AddLow(Tail(a), Tail(b))
             t == a[1] + b[1] + p.c
         IN  [s |-> <<t % LimbBase>> \o p.s, c |-> t \div LimbBase]

BitsAdd(a, b) ==
    LET L == IF Len(a) < Len(b) THEN Len(b) ELSE Len(a)
        p == AddLow(ToLimbs(Zeros(L - Len(a)) \o a), ToLimbs(Zeros(L - Len(b)) \o b))
    IN  FromLimbs(<<p.c>> \o p.s)

\* a < b, both without leading zeros
BitsLess(a, b) ==
    \/ Len(a) < Len(b)
    \/ /\ Len(a) = Len(b)
       /\ \E j \in 1..Len(a) : a[j] < b[j] /\ \A k \in 1..(j - 1) : a[k] = b[k]

(***************************************************************************)
(* A Python number is the dyadic rational m * 2^e tagged with its type:    *)
(* an int has e = 0, a float has a 53-bit m (normal doubles; the program   *)
(* produces no zero, subnormal, infinite or negative float here).          *)
(***************************************************************************)
PyIntOf(k) ==
    [t |-> "int", m |-> NatBits(k), e |-> 0]

\* m * 2^e (sticky: nonzero bits lie below m) rounded to a double
Round53(m, e, sticky) ==
    LET L == Len(m)
    IN  IF L <= 53
        THEN [t |-> "float", m |-> m \o Zeros(53 - L), e |-> e - (53 - L)]
        ELSE LET head == SubSeq(m, 1, 53)
                 guard == m[54]
                 rest == sticky \/ \E j \in 55..L : m[j] = 1
                 up == guard = 1 /\ (rest \/ head[53] = 1)
                 h == IF up THEN BitsAdd(head, <<1>>) ELSE head
             IN  IF Len(h) = 54
                 THEN [t |-> "float", m |-> SubSeq(h, 1, 53), e |-> e + (L - 53) + 1]
                 ELSE [t |-> "float", m |-> h, e |-> e + (L - 53)]

\* float(k), k >= 1
FloatOf(k) ==
    Round53(NatBits(k), 0, FALSE)

\* x * float(k) for a float x
FMulInt(x, k) ==
    Round53(BitsMulSmall(x.m, k), x.e, FALSE)

\* x / float(k) for a float x
FDivInt(x, k) ==
    LET pad == Len(NatBits(k)) + 2
        d == BitsDivSmall(x.m \o Zeros(pad), k)
    IN  Round53(d.q, x.e - pad, d.r # 0)

\* b ** k for ints b, k >= 0
RECURSIVE IntPow(_, _)
IntPow(b, k) ==
    IF k = 0 THEN 1 ELSE b * IntPow(b, k - 1)

\* b ** (-k) for ints b >= 2, k >= 0: the int 1 when k = 0 (-0 is 0), else the
\* float pow(b, -k), taken as the correctly rounded 1 / b^k
PyPowNeg(b, k) ==
    IF k = 0 THEN PyIntOf(1) ELSE FDivInt(FloatOf(1), IntPow(b, k))

\* a * y for an int a >= 1 and a number y
PyMulInt(a, y) ==
    IF y.t = "int" THEN PyIntOf(a * BitsNat(y.m)) ELSE FMulInt(y, a)

\* x / b for a number x and an int b >= 1 (Python 2: int / int floors)
PyDivInt(x, b) ==
    IF x.t = "int" THEN PyIntOf(BitsNat(x.m) \div b) ELSE FDivInt(x, b)

\* int(x): truncation toward zero of a non-negative number
PyTrunc(x) ==
    IF x.e >= 0 THEN BitsNat(x.m \o Zeros(x.e))
    ELSE IF Len(x.m) + x.e <= 0 THEN 0
    ELSE BitsNat(SubSeq(x.m, 1, Len(x.m) + x.e))

(***************************************************************************)
(* Exact (unrounded) comparison and sums of the values of Python numbers.  *)
(***************************************************************************)
DyMin(a, b) ==
    IF a < b THEN a ELSE b

DyAlign(x, e) ==
    Strip(x.m \o Zeros(x.e - e))

DyLess(x, y) ==
    LET e == DyMin(x.e, y.e) IN BitsLess(DyAlign(x, e), DyAlign(y, e))

DyEq(x, y) ==
    LET e == DyMin(x.e, y.e) IN DyAlign(x, e) = DyAlign(y, e)

DyLeq(x, y) ==
    ~ DyLess(y, x)

DyAdd(x, y) ==
    LET e == DyMin(x.e, y.e)
    IN  [t |-> "exact", m |-> BitsAdd(DyAlign(x, e), DyAlign(y, e)), e |-> e]

DyMulInt(x, k) ==
    [t |-> "exact", m |-> BitsMulSmall(x.m, k), e |-> x.e]

\* x * 2^k, k of either sign
DyScale(x, k) ==
    [t |-> "exact", m |-> x.m, e |-> x.e + k]

(***************************************************************************)
(* Program constants and the expressions of the search, line by line.      *)
(***************************************************************************)
max_iter == 60

eta == 3

\* int(math.log(x) / math.log(eta)): the largest k with eta^k <= x
RECURSIVE FloorLog(_, _)
FloorLog(x, k) ==
    IF IntPow(eta, k + 1) > x THEN k ELSE FloorLog(x, k + 1)

s_max ==
    FloorLog(max_iter, 0)

B ==
    (s_max + 1) * max_iter

\* n = int(math.ceil(B/max_iter/(s+1)*eta**s)): all operands are ints, so both
\* divisions floor before math.ceil sees the value
BracketN(b) ==
    ((B \div max_iter) \div (b + 1)) * IntPow(eta, b)

\* variant: the budget of the bracket one deeper, max_iter*eta**(-s-1)
BracketRTooDeep(b) ==
    PyMulInt(max_iter, PyPowNeg(eta, b + 1))

\* r = max_iter*eta**(-s)
BracketR(b) ==
    PyMulInt(max_iter, PyPowNeg(eta, b))

\* variant: n_i stays at n, n*eta**(-0)
RungNStuck(nn, k) ==
    PyMulInt(nn, PyPowNeg(eta, 0))

\* n_i = n*eta**(-i)
RungN(nn, k) ==
    PyMulInt(nn, PyPowNeg(eta, k))

\* variant: the budget of the rung after, r*eta**(i+1)
RungROneRungAhead(rr, k) ==
    PyMulInt(IntPow(eta, k + 1), rr)

\* r_i = r*eta**(i)
RungR(rr, k) ==
    PyMulInt(IntPow(eta, k), rr)

\* variant: int( n_i ), the division by eta left out
KeepWithoutEta(ni) ==
    PyTrunc(ni)

\* int( n_i/eta )
Keep(ni) ==
    PyTrunc(PyDivInt(ni, eta))

\* the length of a[0:k] for a of length len
SliceLen(k, len) ==
    IF k < len THEN k ELSE len

\* variant: time_limit=r, the bracket's initial budget
TimeLimitInitial(rr, ri) ==
    rr

\* main(..., time_limit=r_i)
TimeLimit(rr, ri) ==
    ri

\* variant: the accuracy itself taken for the loss
ValLossIsAccuracy(val_acc) ==
    val_acc

\* val_loss = 100.0 - val_acc
ValLoss(val_acc) ==
    100 - val_acc

\* variant: the latest answer overwrites the best
UpdateBestLatest(best, val_acc) ==
    val_acc

\* if val_acc > best_val_acc: best_val_acc = val_acc
UpdateBest(best, val_acc) ==
    IF val_acc > best THEN val_acc ELSE best

\* variant: the range stepping by two
NextSSkipsOne(b) ==
    b - 2

\* reversed(range(s_max + 1)): the value after b
NextS(b) ==
    b - 1

\* [ get_random_hyperparameter_configuration() for i in range(n) ]: a sampled
\* configuration is named by its draw; its four hyperparameters only travel to
\* the evaluator, whose answer is an input of the model
Sample(nn) ==
    [j \in 1..nn |-> j]

(***************************************************************************)
(* np.argsort(val_losses): positions 1..Len(losses) in ascending order of  *)
(* loss.  The default kind is quicksort, which leaves the order of equal   *)
(* keys unspecified: rev = FALSE keeps equal keys in pool order, rev =     *)
(* TRUE returns them in the opposite order.                                *)
(***************************************************************************)
RECURSIVE ByLoss(_, _, _)
ByLoss(losses, keys, rev) ==
    IF keys = {} THEN << >>
    ELSE LET v == CHOOSE x \in keys : \A y \in keys : x <= y
             N == Len(losses)
             tied == SelectSeq([j \in 1..N |-> IF rev THEN N + 1 - j ELSE j],
                               LAMBDA j : losses[j] = v)
         IN  tied \o ByLoss(losses, keys \ {v}, rev)

ArgSort(losses, rev) ==
    ByLoss(losses, {losses[j] : j \in 1..Len(losses)}, rev)

\* variant: every index one too high, Tr[i+1]
IndicesOneBased(order, k) ==
    [p \in 1..SliceLen(k, Len(order)) |-> order[p] + 1]

\* np.argsort(val_losses)[0:k]
Indices(order, k) ==
    SubSeq(order, 1, SliceLen(k, Len(order)))

ArgSorts(losses) ==
    {ArgSort(losses, rev) : rev \in BOOLEAN}

(***************************************************************************)
(* Bounds of the model and the evaluator's answers.                        *)
(***************************************************************************)
\* val_acc is a percentage; these are whole-valued doubles, on which
\* 100.0 - val_acc and the comparisons are exact
ValAccs == {0, 50, 100}

UsualAcc == CHOOSE a \in ValAccs : a # 0 /\ a # 100

\* at most this many evaluations of one bracket answer other than UsualAcc
MaxVaried == 2

\* largest initial pool of the bracket the halving-only specification starts in
MaxN == 6

\* results[1], the seconds one evaluation took: a whole number of minutes, so
\* that time_spent / 60 is exact
TimeSpents == {60}

(***************************************************************************)
(* The arithmetic above, tabulated once over the values the loops feed it: *)
(* the initial pool sizes and budgets of the brackets and the rung indices.*)
(***************************************************************************)
Rungs ==
    0..s_max

BracketNs ==
    [b \in Rungs |-> BracketN(b)]

BracketRs ==
    [b \in Rungs |-> BracketR(b)]

PoolSizes ==
    {BracketNs[b] : b \in Rungs} \cup 1..MaxN

Budgets ==
    {BracketRs[b] : b \in Rungs}

RungNs ==
    [nn \in PoolSizes, k \in Rungs |-> RungN(nn, k)]

RungRs ==
    [rr \in Budgets, k \in Rungs |-> RungR(rr, k)]

Keeps ==
    [ni \in {RungNs[nn, k] : nn \in PoolSizes, k \in Rungs} |-> Keep(ni)]

(***************************************************************************)
(* State.  pc is the position in the nested loops: "outer" at the head of  *)
(* "for s in reversed(range(s_max + 1))" (line 357), "rung" at the head of *)
(* "for i in range(s+1)" (line 363), "eval" at the head of "for t in Tr"   *)
(* (line 370), "raised" after an uncaught IndexError, "done" past line     *)
(* 401.  s_iter and i_iter are the two range iterators; the iterator of    *)
(* "for t in Tr" stands at Len(val_losses), one loss being appended per    *)
(* iteration.  The remaining variables carry the names of the source.      *)
(* Appending a line to hyperband_evals.txt (lines 394-397) changes no      *)
(* variable of the program and is left out.                                *)
(*                                                                         *)
(* History variables, read by the properties only:                         *)
(*   seen     the val_acc answers of the whole search so far               *)
(*   calls    the configurations handed to the evaluator in the current    *)
(*            rung, in order                                               *)
(*   limits   the time_limit arguments of those calls                      *)
(*   handed   for every rung of the bracket so far, the time limit of its  *)
(*            calls and their number                                       *)
(*   varied   the answers of this bracket that were not UsualAcc           *)
(*   rungLog  the <<s, i>> of every rung begun, in order                   *)
(*   answers  the val_acc answers of the current rung, in order            *)
(*   last     the pool, answers and n_i the latest pruning step read,      *)
(*            until the next rung or bracket begins ("at" is "none"        *)
(*            otherwise)                                                   *)
(*   drained  the rungs begun on an empty pool                             *)
(***************************************************************************)
VARIABLES pc, s_iter, i_iter, s, n, r, Tr, i, n_i, r_i, val_losses, nevals,
          best_val_acc, seen, calls, limits, handed, varied, rungLog, last, drained, answers

vars ==
    <<pc, s_iter, i_iter, s, n, r, Tr, i, n_i, r_i, val_losses, nevals,
      best_val_acc, seen, calls, limits, handed, varied, rungLog, last, drained, answers>>

\* a name the program has not assigned yet
Unbound ==
    [t |-> "unbound", m |-> << >>, e |-> 0]

NoPrune ==
    [at |-> "none", pool |-> << >>, answers |-> << >>, n_i |-> Unbound]

\* lines 347-355: the state when the outer loop is reached
Init ==
    /\ pc = "outer"
    /\ s_iter = s_max
    /\ i_iter = 0
    /\ s = -1
    /\ n = 0
    /\ r = Unbound
    /\ Tr = << >>
    /\ i = -1
    /\ n_i = Unbound
    /\ r_i = Unbound
    /\ val_losses = << >>
    /\ nevals = 0
    /\ best_val_acc = 0
    /\ seen = {}
    /\ calls = << >>
    /\ limits = {}
    /\ handed = << >>
    /\ varied = 0
    /\ rungLog = << >>
    /\ last = NoPrune
    /\ drained = 0
    /\ answers = << >>

\* lines 357-362: the next bracket; the comprehension leaves i = n - 1
BeginBracket ==
    /\ pc = "outer"
    /\ s_iter >= 0
    /\ s' = s_iter
    /\ s_iter' = NextS(s_iter)
    /\ n' = BracketNs[s_iter]
    /\ r' = BracketRs[s_iter]
    /\ Tr' = Sample(BracketNs[s_iter])
    /\ i' = IF BracketNs[s_iter] > 0 THEN BracketNs[s_iter] - 1 ELSE i
    /\ i_iter' = 0
    /\ pc' = "rung"
    /\ handed' = << >>
    /\ varied' = 0
    /\ last' = NoPrune
    /\ UNCHANGED <<n_i, r_i, val_losses, nevals, best_val_acc, seen, calls,
                   limits, rungLog, drained, answers>>

\* lines 363-368: the next rung of the bracket
BeginRung ==
    /\ pc = "rung"
    /\ i_iter <= s
    /\ i' = i_iter
    /\ i_iter' = i_iter + 1
    /\ n_i' = RungNs[n, i_iter]
    /\ r_i' = RungRs[r, i_iter]
    /\ val_losses' = << >>
    /\ pc' = "eval"
    /\ calls' = << >>
    /\ answers' = << >>
    /\ limits' = {}
    /\ handed' = Append(handed, [limit |-> RungRs[r, i_iter], count |-> 0])
    /\ rungLog' = Append(rungLog, <<s, i_iter>>)
    /\ last' = NoPrune
    /\ drained' = IF Tr = << >> THEN drained + 1 ELSE drained
    /\ UNCHANGED <<s_iter, s, n, r, Tr, nevals, best_val_acc, seen, varied>>

\* lines 370-397: one configuration of the pool is trained and scored
Evaluate ==
    /\ pc = "eval"
    /\ Len(val_losses) < Len(Tr)
    /\ \E val_acc \in ValAccs, time_spent \in TimeSpents :
          /\ val_acc # UsualAcc => varied < MaxVaried
          /\ val_losses' = Append(val_losses, ValLoss(val_acc))
          /\ nevals' = nevals + time_spent \div 60
          /\ best_val_acc' = UpdateBest(best_val_acc, val_acc)
          /\ seen' = seen \cup {val_acc}
          /\ answers' = Append(answers, val_acc)
          /\ varied' = IF val_acc # UsualAcc THEN varied + 1 ELSE varied
    /\ calls' = Append(calls, Tr[Len(val_losses) + 1])
    /\ limits' = limits \cup {TimeLimit(r, r_i)}
    /\ handed' = [handed EXCEPT ![Len(handed)] =
                      [limit |-> TimeLimit(r, r_i), count |-> @.count + 1]]
    /\ UNCHANGED <<pc, s_iter, i_iter, s, n, r, Tr, i, n_i, r_i, rungLog, last,
                   drained>>

\* lines 399-400: Tr = [ Tr[i] for i in np.argsort(val_losses)[0:int( n_i/eta )] ]
\* an index past the pool raises IndexError; the comprehension leaves i at the
\* last index it read (0-based)
Prune ==
    /\ pc = "eval"
    /\ Len(val_losses) = Len(Tr)
    /\ \E order \in ArgSorts(val_losses) :
          LET idx == Indices(order, Keeps[n_i])
          IN  IF \A p \in DOMAIN idx : idx[p] \in DOMAIN Tr
              THEN /\ Tr' = [p \in DOMAIN idx |-> Tr[idx[p]]]
                   /\ i' = IF idx # << >> THEN idx[Len(idx)] - 1 ELSE i
                   /\ pc' = "rung"
              ELSE /\ pc' = "raised"
                   /\ UNCHANGED <<Tr, i>>
    /\ last' = [at |-> "pruned", pool |-> Tr, answers |-> answers, n_i |-> n_i]
    /\ UNCHANGED <<s_iter, i_iter, s, n, r, n_i, r_i, val_losses, nevals,
                   best_val_acc, seen, calls, limits, handed, varied, rungLog,
                   drained, answers>>

\* line 401: range(s+1) is exhausted, back to the outer loop
EndBracket ==
    /\ pc = "rung"
    /\ i_iter > s
    /\ pc' = "outer"
    /\ UNCHANGED <<s_iter, i_iter, s, n, r, Tr, i, n_i, r_i, val_losses, nevals,
                   best_val_acc, seen, calls, limits, handed, varied, rungLog, last,
                   drained, answers>>

\* the outer range is exhausted: the search is over
Finish ==
    /\ pc = "outer"
    /\ s_iter < 0
    /\ pc' = "done"
    /\ UNCHANGED <<s_iter, i_iter, s, n, r, Tr, i, n_i, r_i, val_losses, nevals,
                   best_val_acc, seen, calls, limits, handed, varied, rungLog, last,
                   drained, answers>>

Next ==
    \/ BeginBracket
    \/ BeginRung
    \/ Evaluate
    \/ Prune
    \/ EndBracket
    \/ Finish

Spec ==
    Init /\ [][Next]_vars

\* every step is the program's own: it runs until it ends
FairSpec ==
    Init /\ [][Next]_vars /\ WF_vars(Next)

(***************************************************************************)
(* Successive halving alone (lines 363-400) on any bracket: the state at   *)
(* line 363 with a pool of nn fresh configurations and b + 1 rungs to run. *)
(***************************************************************************)
InitSH ==
    \E b \in 0..s_max, nn \in 1..MaxN :
        /\ pc = "rung"
        /\ s_iter = NextS(b)
        /\ i_iter = 0
        /\ s = b
        /\ n = nn
        /\ r = BracketRs[b]
        /\ Tr = Sample(nn)
        /\ i = nn - 1
        /\ n_i = Unbound
        /\ r_i = Unbound
        /\ val_losses = << >>
        /\ nevals = 0
        /\ best_val_acc = 0
        /\ seen = {}
        /\ calls = << >>
        /\ limits = {}
        /\ handed = << >>
        /\ varied = 0
        /\ rungLog = << >>
        /\ last = NoPrune
        /\ drained = 0
        /\ answers = << >>

SpecSH ==
    InitSH /\ [][Next]_vars

(***************************************************************************)
(* Vocabulary of the properties.                                           *)
(***************************************************************************)
\* n and r have just been computed for bracket s (line 359 is behind)
ParametersComputed ==
    pc = "rung" /\ i_iter = 0

\* the last rung of bracket s has been pruned (line 400) and the next
\* bracket has not begun
BracketEnded ==
    /\ last.at = "pruned"
    /\ i_iter > s
    /\ pc \in {"rung", "outer", "done"}

\* ceil(a / d) of the exact quotient
CeilDiv(a, d) ==
    (a + d - 1) \div d

\* x * (1 + 2^-k), exactly
Widened(x, k) ==
    DyAdd(x, DyScale(x, 0 - k))

\* x is a / d up to one rounding: a <= x*d*(1 + 2^-52) and x*d <= a*(1 + 2^-52)
NearQuotient(x, a, d) ==
    LET xd == DyMulInt(x, d)
    IN  /\ DyLeq(PyIntOf(a), Widened(xd, 52))
        /\ DyLeq(xd, Widened(PyIntOf(a), 52))

\* the loss the specification measures a configuration by
LossOf(val_acc) ==
    100 - val_acc

\* where configuration c stood in the pool the latest pruning read
PlaceOf(c) ==
    CHOOSE j \in DOMAIN last.pool : last.pool[j] = c

\* the places of the survivors of the latest pruning, in their new order
KeptPlaces ==
    [p \in DOMAIN Tr |-> PlaceOf(Tr[p])]

\* floor(n_i / eta) for the n_i the latest pruning read; n_i >= 0, so this
\* is floor(floor(n_i) / eta)
FloorQuota ==
    PyTrunc(last.n_i) \div eta

MinOf(a, b) ==
    IF a < b THEN a ELSE b

MaxOf(S) ==
    CHOOSE x \in S : \A y \in S : y <= x

(***************************************************************************)
(* C1.  [the source computes otherwise]  For every bracket the outer loop  *)
(* computes n = ceil(B / max_iter / (s+1) * eta^s) with exact division and *)
(* r = max_iter / eta^s, where s_max = 3 and B = 240: n = 27, 12, 6, 4 for *)
(* s = 3, 2, 1, 0.  Line 358 divides two ints, which floors under Python 2:*)
(* for s = 2 it computes n = 9.                                            *)
(***************************************************************************)
C1_BracketParameters ==
    /\ s_max = 3
    /\ B = 240
    /\ ParametersComputed =>
          /\ n = CeilDiv(B * IntPow(eta, s), max_iter * (s + 1))
          /\ n = <<4, 6, 12, 27>>[s + 1]
          /\ NearQuotient(r, max_iter, IntPow(eta, s))

(***************************************************************************)
(* C6.  For every bracket, the n and r the outer loop computes satisfy     *)
(* n >= 1 and r >= 1.                                                      *)
(***************************************************************************)
C6_AtLeastOne ==
    ParametersComputed => n >= 1 /\ DyLeq(PyIntOf(1), r)

\* the deepest bracket, whose r is the smallest, has its parameters
C6_Witness ==
    ParametersComputed /\ s = s_max /\ DyLess(r, PyIntOf(eta))

(***************************************************************************)
(* C4.  best_val_acc is always the maximum of 0 and every val_acc the      *)
(* evaluator has returned so far in the whole search; it is never reset at *)
(* a rung or bracket boundary.                                             *)
(***************************************************************************)
C4_BestIsMaximum ==
    best_val_acc = MaxOf(seen \cup {0})

\* in a later bracket an evaluation has just answered below the best so far
C4_Witness ==
    /\ s >= 0 /\ s < s_max
    /\ pc = "eval"
    /\ answers # << >>
    /\ answers[Len(answers)] < best_val_acc
    /\ best_val_acc = MaxOf(ValAccs)

(***************************************************************************)
(* C3.  Pruning never grows the pool: after line 400 the pool is at most   *)
(* as large as the pool the rung evaluated, and strictly smaller whenever  *)
(* n_i / eta >= 1.                                                         *)
(***************************************************************************)
C3_PoolShrinks ==
    last.at = "pruned" =>
        /\ Len(Tr) <= Len(last.pool)
        /\ FloorQuota >= 1 => Len(Tr) < Len(last.pool)

\* a pruning with n_i / eta >= 1 has cut a pool down
C3_Witness ==
    /\ last.at = "pruned"
    /\ FloorQuota >= 1
    /\ Len(Tr) >= 1
    /\ Len(Tr) < Len(last.pool)

\* the loss measured, in the rung the latest pruning closed, at place j
LossAt(j) ==
    LossOf(last.answers[j])

\* no configuration scores a lower loss in that rung than the survivors do
SurvivorsAreLowest ==
    LET K == KeptPlaces
    IN  \A p \in DOMAIN K : \A j \in DOMAIN last.pool : LossAt(K[p]) <= LossAt(j)

(***************************************************************************)
(* C2.  [as the specification words it]  At the end of every bracket the   *)
(* pool holds exactly one configuration, the one with the lowest loss of   *)
(* the final rung.                                                         *)
(***************************************************************************)
C2_OneSurvivor ==
    BracketEnded => Len(Tr) = 1 /\ SurvivorsAreLowest

(***************************************************************************)
(* C2.  [amended]  At the end of every bracket the pool holds at most one  *)
(* configuration: exactly one, with the lowest loss of the final rung, in  *)
(* bracket s = 0, and none in the brackets s >= 1, whose final rung keeps  *)
(* int(n_s / eta) = 0 configurations.                                      *)
(***************************************************************************)
C2_AtMostOneSurvivor ==
    BracketEnded =>
        /\ Len(Tr) = IF s = 0 THEN 1 ELSE 0
        /\ SurvivorsAreLowest

\* bracket 0 has ended on a survivor that beat another configuration
C2_Witness ==
    /\ BracketEnded
    /\ s = 0
    /\ Len(Tr) = 1
    /\ \E j \in DOMAIN last.pool : LossAt(KeptPlaces[1]) < LossAt(j)

\* place a comes before place b by ascending loss, ties by pool position
StablyBefore(a, b) ==
    \/ LossAt(a) < LossAt(b)
    \/ LossAt(a) = LossAt(b) /\ a < b

\* the places of the pool that are not among the places K
Discarded(K) ==
    DOMAIN last.pool \ {K[p] : p \in DOMAIN K}

(***************************************************************************)
(* C7.  [as the specification words it]  Pruning keeps the first           *)
(* floor(n_i / eta) configurations of the pool in ascending order of the   *)
(* loss 100 - val_acc measured in this rung, ties broken stably (by pool   *)
(* position); every survivor's loss is at most every discarded one's.      *)
(***************************************************************************)
C7_StablePrune ==
    last.at = "pruned" =>
        LET K == KeptPlaces
            D == Discarded(K)
        IN  /\ Len(Tr) = MinOf(FloorQuota, Len(last.pool))
            /\ \A p, q \in DOMAIN K : p < q => StablyBefore(K[p], K[q])
            /\ \A p \in DOMAIN K : \A j \in D : StablyBefore(K[p], j)

(***************************************************************************)
(* C7.  [amended]  Pruning keeps floor(n_i / eta) distinct configurations  *)
(* of the pool, in ascending order of the loss 100 - val_acc measured in   *)
(* this rung; every survivor's loss is at most every discarded one's.      *)
(* Which of several configurations of equal loss survive, and in which     *)
(* order, is not determined.                                               *)
(***************************************************************************)
C7_Prune ==
    last.at = "pruned" =>
        LET K == KeptPlaces
            D == Discarded(K)
        IN  /\ Len(Tr) = MinOf(FloorQuota, Len(last.pool))
            /\ \A p, q \in DOMAIN K : p < q =>
                  /\ K[p] # K[q]
                  /\ LossAt(K[p]) <= LossAt(K[q])
            /\ \A p \in DOMAIN K : \A j \in D : LossAt(K[p]) <= LossAt(j)

\* a pruning has kept a configuration over one of strictly higher loss, and
\* over a configuration of equal loss that stood earlier in the pool
C7_Witness ==
    /\ last.at = "pruned"
    /\ LET K == KeptPlaces
           D == Discarded(K)
       IN  /\ \E p \in DOMAIN K : \E j \in D : LossAt(K[p]) < LossAt(j)
           /\ \E p \in DOMAIN K : \E j \in D : LossAt(K[p]) = LossAt(j) /\ j < K[p]

\* the exact sum, over the rungs of h, of (number of calls) * (their time limit)
RECURSIVE Total(_)
Total(h) ==
    IF h = << >> THEN PyIntOf(0)
    ELSE DyAdd(Total(SubSeq(h, 1, Len(h) - 1)),
               DyMulInt(h[Len(h)].limit, h[Len(h)].count))

(***************************************************************************)
(* C5.  [as the specification words it]  For every bracket, the total      *)
(* budget handed to the evaluator in that bracket, the sum over its rungs  *)
(* of (number of configurations evaluated) * r_i, is at most               *)
(* B = (s_max + 1) * max_iter.                                             *)
(***************************************************************************)
C5_WithinB ==
    BracketEnded => DyLeq(Total(handed), PyIntOf(B))

(***************************************************************************)
(* C5.  [amended]  For every bracket, the total budget handed to the       *)
(* evaluator in that bracket is at most B up to the rounding of the        *)
(* floating-point budgets: at most B * (1 + 2^-52).  (In bracket s = 3 it  *)
(* is B + 3 * 2^-49.)                                                      *)
(***************************************************************************)
C5_WithinRoundedB ==
    BracketEnded => DyLeq(Total(handed), Widened(PyIntOf(B), 52))

\* the deepest bracket has ended having been handed more than B
C5_Witness ==
    /\ BracketEnded
    /\ s = s_max
    /\ Len(handed) = s + 1
    /\ DyLess(PyIntOf(B), Total(handed))

\* the evaluations of the current rung so far took the pool in order, one
\* configuration each, and were all handed the rung's r_i
OncePerConfiguration ==
    /\ pc = "eval" => calls = SubSeq(Tr, 1, Len(calls)) /\ limits \subseteq {r_i}
    /\ last.at = "pruned" => calls = last.pool

\* x is rr * k up to one rounding to nearest
NearProduct(x, rr, k) ==
    LET rk == DyMulInt(rr, k)
    IN  /\ DyLeq(x, Widened(rk, 53))
        /\ DyLeq(rk, Widened(x, 53))

\* the budgets the rungs can compute, and the ones among them that are
\* r * eta^i (rounded), at most max_iter, max_iter itself, max_iter up to
\* rounding
TimeLimits ==
    Budgets \cup {RungRs[rr, k] : rr \in Budgets, k \in Rungs}

ProductsOf ==
    [rr \in Budgets, k \in Rungs |->
        {x \in TimeLimits : NearProduct(x, rr, IntPow(eta, k))}]

UpToMax ==
    {x \in TimeLimits : DyLeq(x, PyIntOf(max_iter))}

ExactlyMax ==
    {x \in TimeLimits : DyEq(x, PyIntOf(max_iter))}

NearlyMax ==
    {x \in TimeLimits : DyLeq(PyIntOf(max_iter), Widened(x, 52))}

(***************************************************************************)
(* C10.  [as the specification words it]  In rung i of bracket s every     *)
(* configuration of the pool is evaluated exactly once, with r_i =         *)
(* r * eta^i as the evaluator's time limit; r_i never exceeds max_iter and *)
(* equals max_iter in the final rung i = s.                                *)
(***************************************************************************)
C10_FullBudgetAtLast ==
    /\ OncePerConfiguration
    /\ pc = "eval" =>
          \A x \in limits :
              /\ x \in ProductsOf[r, i]
              /\ x \in UpToMax
              /\ i = s => x \in ExactlyMax

(***************************************************************************)
(* C10.  [amended]  In rung i of bracket s every configuration of the pool *)
(* is evaluated exactly once, with the double r_i = r * eta^i as the       *)
(* evaluator's time limit; r_i never exceeds max_iter, and in the final    *)
(* rung i = s it is max_iter up to rounding: max_iter <= r_i * (1 + 2^-52).*)
(* (In bracket s = 2 it is 59.99999999999999.)                             *)
(***************************************************************************)
C10_RoundedBudgetAtLast ==
    /\ OncePerConfiguration
    /\ pc = "eval" =>
          \A x \in limits :
              /\ x \in ProductsOf[r, i]
              /\ x \in UpToMax
              /\ i = s => x \in NearlyMax

\* the final rung of a bracket has evaluated its whole pool on a budget
\* just short of max_iter
C10_Witness ==
    /\ pc = "eval"
    /\ i = s
    /\ Tr # << >>
    /\ calls = Tr
    /\ limits = {r_i}
    /\ r_i \in NearlyMax \ ExactlyMax

(***************************************************************************)
(* C8.  In any bracket (n, s), n = 5 included, once a pruning leaves the   *)
(* pool empty every remaining rung of the bracket performs no evaluation   *)
(* and indexes nothing outside the pool (no IndexError is raised), and the *)
(* search goes on to the next bracket instead of failing: short of the     *)
(* end, the program always has a next step.                                *)
(***************************************************************************)
C8_EmptyPoolIsHarmless ==
    /\ pc # "raised"
    /\ pc = "eval" /\ Tr = << >> => calls = << >>
    /\ last.at = "pruned" /\ last.pool = << >> => calls = << >> /\ Tr = << >>
    /\ pc # "done" => ENABLED Next

\* the bracket of five configurations has run a rung on an empty pool and
\* handed over to the outer loop
C8_Witness ==
    /\ n = 5
    /\ drained >= 1
    /\ handed # << >>
    /\ handed[Len(handed)].count = 0
    /\ pc = "outer"

\* the rungs of brackets b, b - 1, ..., 0 in the order the specification gives
RECURSIVE Schedule(_)
Schedule(b) ==
    IF b < 0 THEN << >>
    ELSE [k \in 1..(b + 1) |-> <<b, k - 1>>] \o Schedule(b - 1)

FullSchedule ==
    Schedule(s_max)

(***************************************************************************)
(* C9.  Brackets run in strictly decreasing order of s, from s_max to 0,   *)
(* each exactly once and each through all its rungs 0..s before the next   *)
(* begins: the rungs begun are always a prefix of the full schedule.  As   *)
(* every evaluator call returns, the search eventually terminates, and     *)
(* then the whole schedule has run.                                        *)
(***************************************************************************)
C9_BracketOrder ==
    /\ [](/\ Len(rungLog) <= Len(FullSchedule)
          /\ rungLog = SubSeq(FullSchedule, 1, Len(rungLog))
          /\ pc = "done" => rungLog = FullSchedule)
    /\ <>(pc = "done")

\* the search has ended after the rung of bracket 0
C9_Witness ==
    /\ pc = "done"
    /\ s = 0
    /\ rungLog # << >>
    /\ rungLog[Len(rungLog)] = <<0, 0>>

====
